---- MODULE Spec2Model ----
(***************************************************************************)
(* gobuildcache: a GOCACHEPROG child process.  run() (main.go) decodes     *)
(* requests from stdin, dispatches one goroutine per request and writes    *)
(* the responses to stdout under a mutex.  Cacher (main.go) deduplicates   *)
(* work with singleflight and delegates to Bucket and Disk (the storage    *)
(* file, src/unnamed/part_001).                                            *)
(*                                                                         *)
(* src/unnamed/part_001 holds two revisions of the storage file:           *)
(*   rev = 1  lines 1-225   (download piped into Disk.PutOutput, remote    *)
(*                           action object uploaded before the symlink)    *)
(*   rev = 2  lines 226-485 (download buffered, ".empty" marker, symlink   *)
(*                           before the remote action object)              *)
(* Both are modelled; rev is fixed at startup.                             *)
(***************************************************************************)
EXTENDS Integers, Sequences, FiniteSets, TLC

\* ------------------------------------------------------------------ bounds
MaxReqs    == 2      \* requests decoded in one session
NumWorkers == 2      \* upload workers (20 in the program)
QueueCap   == 1      \* capacity of the jobs channel (1000 in the program)
NChunks    == 2      \* writes io.Copy needs to copy one blob

RawActions == {"a1"}         \* ActionID byte strings of the requests
RawOutputs == {"o1", "o2"}   \* OutputID byte strings of the requests
Contents   == {"x", "y"}     \* blob contents

None   == "none"
NoErr  == ""                 \* a nil error
NoPath == <<>>               \* the empty string as a path

\* hex.EncodeToString
Hex(b) ==
  CASE b = "a1" -> "6131"
    [] b = "o1" -> "6f31"
    [] b = "o2" -> "6f32"
    [] OTHER    -> ""

Actions == {Hex(b) : b \in RawActions}     \* names in the action directory
Outputs == {Hex(b) : b \in RawOutputs}     \* names in the output directory

NoRd   == [data |-> None, bad |-> NoErr]
NoFile == [data |-> None, len |-> -1]      \* no such file

Handlers == 1..MaxReqs
Workers  == 1..NumWorkers

VARIABLES
  rev,        \* revision of the storage file, 1 or 2
  readonly,   \* the -readonly flag given to run()
  known,      \* KnownCommands of the handshake response, <<>> before it
  decoded,    \* number of requests decoded from stdin so far
  main,       \* position of run(): "encode", "flush", "loop", "returned"
  exit,       \* how the process ended: None, "eof", "fatal" or a panic message
  req,        \* req[h]: the request handler goroutine h was started with
  pc,         \* pc[h]: position of handler goroutine h
  outputID,   \* outputID[h]: local of Cacher.Get / Cacher.Put
  pathname,   \* pathname[h]: path the storage call produced
  err,        \* err[h]: error the storage call produced
  rd,         \* rd[h]: the io.Reader Disk.PutOutput copies from
  tmp,        \* tmp[h]: the temporary file of Disk.PutOutput
  resp,       \* resp[h]: the response under construction
  mu,         \* holder of the output mutex, 0 when free
  w,          \* bufio.Writer: bytes buffered, not yet on stdout
  out,        \* bytes on stdout
  link,       \* disk: action symlinks
  empty,      \* disk: ".empty" markers (rev 2)
  output,     \* disk: output blobs under their final name
  raction,    \* bucket: output_id metadata of the action objects
  routput,    \* bucket: output objects
  jobs,       \* Bucket.jobs: the buffered channel
  closed,     \* Bucket.jobs has been closed
  wpc,        \* wpc[k]: position of upload worker k
  wjob,       \* wjob[k]: pathname worker k took from the channel
  flight,     \* singleflight.Group: keys with a call in flight
  hist        \* history: counters of remote calls and queue insertions

vars == <<rev, readonly, known, decoded, main, exit, req, pc, outputID, pathname, err, rd, tmp,
          resp, mu, w, out, link, empty, output, raction, routput, jobs,
          closed, wpc, wjob, flight, hist>>

hvars == <<req, pc, outputID, pathname, err, rd, tmp, resp>>
diskv == <<link, empty, output>>
remv  == <<raction, routput>>
qvars == <<jobs, closed, wpc, wjob>>
outv  == <<mu, w, out>>
mainv == <<rev, readonly, known, decoded, main>>

\* ------------------------------------------------------------------ paths
\* filepath.Join(cacheDir, outputDir, outputID): Join drops empty elements,
\* so the empty output id names the output directory itself.
OutputPath(o) == IF o = "" THEN <<"output">> ELSE <<"output", o>>

\* filepath.Base
Base(p) == IF p = NoPath THEN "." ELSE p[Len(p)]

\* hex.DecodeString: the bytes, or None when the name is not hex ("output",
\* "." are not).
Unhex(name) ==
  IF \E b \in RawOutputs \cup RawActions : Hex(b) = name
  THEN CHOOSE b \in RawOutputs \cup RawActions : Hex(b) = name
  ELSE None

\* os.Stat(p) == nil: the output directory exists since run() made it.
StatOK(p) ==
  \/ p = <<"output">>
  \/ Len(p) = 2 /\ p[1] = "output" /\ p[2] \in Outputs /\ output[p[2]] # NoFile

Alive == exit = None

\* ------------------------------------------------------------------ requests
cmdGet   == "get"
cmdPut   == "put"
cmdClose == "close"

\* len(buf) of the payload that follows a request record: every blob of
\* Contents is NChunks parts long; None is no payload.
Size(c) == IF c = None THEN 0 ELSE NChunks

\* Body is the payload that follows the record on stdin.
NoReq == [Command |-> None, ActionID |-> "", OutputID |-> "", BodySize |-> 0,
          Body |-> None]

GetReq(a) ==
  [Command |-> cmdGet, ActionID |-> a, OutputID |-> "", BodySize |-> 0, Body |-> None]
PutReq(a, o, c) ==
  [Command |-> cmdPut, ActionID |-> a, OutputID |-> o, BodySize |-> Size(c), Body |-> c]
CloseReq ==
  [Command |-> cmdClose, ActionID |-> "", OutputID |-> "", BodySize |-> 0, Body |-> None]

\* A put record that declares n bytes, followed by the payload c.
PutReqSized(a, o, c, n) == [PutReq(a, o, c) EXCEPT !.BodySize = n]

GetReqs   == {GetReq(a) : a \in RawActions}
PutReqs   == {PutReq(a, o, c) : a \in RawActions, o \in RawOutputs, c \in Contents}
CloseReqs == {CloseReq}

\* put requests whose declared BodySize is positive and differs from the
\* length of the payload
BadPutReqs ==
  {PutReqSized(a, o, c, n) : a \in RawActions, o \in RawOutputs, c \in Contents,
                            n \in (1..(NChunks + 1)) \ {NChunks}}

\* The requests a client sends in the sessions studied below; puts name the
\* outputs of action a1.
AnyReqs      == GetReqs \cup PutReqs \cup CloseReqs
ClosingReqs  == {PutReq("a1", o, "x") : o \in RawOutputs} \cup CloseReqs
StoreReqs    == {PutReq("a1", "o1", "y")} \cup GetReqs
ReadonlyReqs == {PutReq("a1", o, "x") : o \in RawOutputs}
FrameReqs    == {PutReq("a1", "o1", "x")} \cup BadPutReqs \cup GetReqs
AddressedPutReqs == {PutReq("a1", "o1", "x"), PutReq("a1", "o2", "y")}
LinkReqs     == AddressedPutReqs \cup GetReqs

NoResp == [ID |-> 0, Err |-> NoErr, Miss |-> FALSE, DiskPath |-> NoPath, OutputID |-> ""]

\* States of the bucket at startup: nothing; a1 resolving to o1 with the
\* blob present; a1 resolving to o1 with the blob missing; an action object
\* without output_id metadata.
RemoteInits ==
  { [ra |-> [a \in Actions |-> None], ro |-> [o \in Outputs |-> None]],
    [ra |-> [a \in Actions |-> Hex("o1")],
      ro |-> [o \in Outputs |-> IF o = Hex("o1") THEN "x" ELSE None]],
    [ra |-> [a \in Actions |-> Hex("o1")], ro |-> [o \in Outputs |-> None]],
    [ra |-> [a \in Actions |-> ""],   ro |-> [o \in Outputs |-> None]] }

\* hist records what happened, for the properties; no action reads it.
\*   download[o]  calls of bucket.Download for output o
\*   enq[o]       pathnames of o sent to the jobs channel
\*   attempt[o]   upload attempts of o the workers finished
\*   notfound     actions whose bucket.Attributes answered NotFound
\*   remote[h]    calls to the bucket made by handler h
\*   late         get handlers started after their action was in notfound
\*   nolink       get handlers that found no action symlink
\*   attrerr      get handlers whose bucket.Attributes failed otherwise
\*   shared       handlers that shared another caller's singleflight call
\*   failed       outputs for which a download or a disk write failed
\*   closes       calls of close(b.jobs) that returned
\*   bad          requests decoded with BodySize > 0 and a payload of other length
\*   absent       get handlers that ran Bucket.GetOutput while the blob was not on disk
\*   symlink[h]   what os.Symlink of handler h met: "new", "exists", "" before it
\*   actup        put handlers that called bucket.Upload for the action object
\*   upfail       outputs whose upload by a worker failed
NoHist == [download |-> [o \in Outputs |-> 0],
           enq      |-> [o \in Outputs |-> 0],
           attempt  |-> [o \in Outputs |-> 0],
           notfound |-> {},
           remote   |-> [h \in Handlers |-> 0],
           late     |-> {},
           nolink   |-> {},
           attrerr  |-> {},
           shared   |-> {},
           failed   |-> {},
           closes   |-> 0,
           bad      |-> {},
           absent   |-> {},
           symlink  |-> [h \in Handlers |-> ""],
           actup    |-> {},
           upfail   |-> {}]

\* The state when run() is about to write the handshake: the cache
\* directories exist, Bucket.Start has made the channel and the workers.
\* ro is the -readonly flag; mk are the actions whose ".empty" marker an
\* earlier run of the program left in the cache directory.
Startup(ro, mk) ==
  /\ rev \in {1, 2}
  /\ readonly = ro
  /\ known = <<>>
  /\ decoded = 0
  /\ main = "encode"
  /\ exit = None
  /\ req = [h \in Handlers |-> NoReq]
  /\ pc = [h \in Handlers |-> "idle"]
  /\ outputID = [h \in Handlers |-> ""]
  /\ pathname = [h \in Handlers |-> NoPath]
  /\ err = [h \in Handlers |-> NoErr]
  /\ rd = [h \in Handlers |-> NoRd]
  /\ tmp = [h \in Handlers |-> NoFile]
  /\ resp = [h \in Handlers |-> NoResp]
  /\ mu = 0
  /\ w = <<>>
  /\ out = <<>>
  /\ link = [a \in Actions |-> None]
  /\ empty = [a \in Actions |-> a \in mk]
  /\ output = [o \in Outputs |-> NoFile]
  /\ \E r \in RemoteInits : raction = r.ra /\ routput = r.ro
  /\ jobs = <<>>
  /\ closed = FALSE
  /\ wpc = [k \in Workers |-> "recv"]
  /\ wjob = [k \in Workers |-> NoPath]
  /\ flight = {}
  /\ hist = NoHist

\* flag.BoolVar(&readonly, "readonly", false, ...): the flag is off unless given.
Init == Startup(FALSE, {})

\* The program started with -readonly.
InitReadonly == Startup(TRUE, {})

\* The bucket in any of its states, and any markers left by an earlier run.
InitRound == \E mk \in SUBSET Actions : Startup(FALSE, mk)

\* ------------------------------------------------------------------ run()
\* caps := []cmd{cmdClose, cmdGet}; if !readonly { caps = append(caps, cmdPut) }
Caps == IF readonly THEN <<cmdClose, cmdGet>> ELSE <<cmdClose, cmdGet, cmdPut>>

\* enc.Encode(response{KnownCommands: caps}): the record enters the buffer.
Handshake ==
  /\ Alive /\ main = "encode"
  /\ known' = Caps
  /\ w' = w \o <<<<0, 1>>, <<0, 2>>>>
  /\ main' = "flush"
  /\ UNCHANGED <<rev, readonly, decoded, exit, hvars, mu, out, diskv, remv, qvars, flight, hist>>

\* w.Flush() of the handshake; the decode loop starts after it.
HandshakeFlush ==
  /\ Alive /\ main = "flush"
  /\ out' = out \o w
  /\ w' = <<>>
  /\ main' = "loop"
  /\ UNCHANGED <<rev, readonly, known, decoded, exit, hvars, mu, diskv, remv, qvars, flight, hist>>

\* Where the goroutine of a request starts: the switch on req.Command.
Entry(c) == IF c = cmdGet THEN "get" ELSE IF c = cmdPut THEN "flight" ELSE "close"

\* A run() that takes the payload of a put as it comes.
BodyUnchecked(r) == TRUE

\* dec.Decode(&buf) succeeds and int64(len(buf)) == req.BodySize
BodyOK(r) == r.Body # None /\ Size(r.Body) = r.BodySize

\* One turn of the loop: dec.Decode(&req), the payload of a put with
\* BodySize > 0, and `go func()`.  A payload that is missing or of another
\* length makes run() return the error: no goroutine is started and main()
\* exits the process.  (Every put of the request sets declares BodySize > 0.)
Decode(S) ==
  /\ Alive /\ main = "loop" /\ decoded < MaxReqs
  /\ \E r \in S :
       LET h   == decoded + 1
           log == [hist EXCEPT
                    !.late = IF r.Command = cmdGet /\ Hex(r.ActionID) \in hist.notfound
                             THEN @ \cup {h} ELSE @,
                    !.bad  = IF r.BodySize > 0 /\ Size(r.Body) # r.BodySize
                             THEN @ \cup {h} ELSE @]
       IN
       /\ decoded' = h
       /\ hist' = log
       /\ IF r.Command = cmdPut /\ r.BodySize > 0 /\ ~BodyOK(r)
          THEN /\ main' = "returned"
               /\ exit' = "fatal"
               /\ UNCHANGED <<req, pc, outputID, rd, resp>>
          ELSE /\ req' = [req EXCEPT ![h] = r]
               /\ pc' = [pc EXCEPT ![h] = Entry(r.Command)]
               /\ outputID' = [outputID EXCEPT ![h] = Hex(r.OutputID)]
               /\ rd' = [rd EXCEPT ![h] = [data |-> r.Body, bad |-> NoErr]]
               /\ resp' = [resp EXCEPT ![h] = [NoResp EXCEPT !.ID = h]]
               /\ UNCHANGED <<main, exit>>
  /\ UNCHANGED <<rev, readonly, known, pathname, err, tmp, outv, diskv, remv, qvars,
                 flight>>

\* dec.Decode returns io.EOF: run returns nil and the process exits.
Eof ==
  /\ Alive /\ main = "loop"
  /\ main' = "returned"
  /\ exit' = "eof"
  /\ UNCHANGED <<rev, readonly, known, decoded, hvars, outv, diskv, remv, qvars, flight, hist>>

\* ------------------------------------------------------------------ singleflight
\* A Group.Do that never finds a call to share.
InFlightNever(key) == FALSE

\* Group.Do: a call for the key is in flight, so this caller shares it.
InFlight(key) == key \in flight

Key(h) == <<req[h].Command, outputID[h]>>

Sharers(h) ==
  {h} \cup {g \in Handlers : pc[g] = "shared" /\ Key(g) = Key(h)}

\* Where a caller of Group.Do continues with the result (p, e): Cacher.Get
\* returns it; Cacher.Put returns on an error and links the action otherwise.
After(h, e) ==
  IF req[h].Command = cmdGet \/ e # NoErr THEN "ret"
  ELSE IF rev = 1 THEN "upload" ELSE "symlink"

\* The function given to Group.Do returns (p, e): the key is forgotten and
\* the caller and everyone sharing the call continue with that result.  It
\* is part of the step that produces the result: a caller that would arrive
\* between the return and the forgetting shares the call just as one that
\* arrives right before that step.
Deliver(h, p, e) ==
  /\ pc' = [g \in Handlers |-> IF g \in Sharers(h) THEN After(h, e) ELSE pc[g]]
  /\ pathname' = [g \in Handlers |-> IF g \in Sharers(h) THEN p ELSE pathname[g]]
  /\ err' = [g \in Handlers |-> IF g \in Sharers(h) THEN e ELSE err[g]]
  /\ flight' = flight \ {Key(h)}

Remote(h) == [hist EXCEPT !.remote[h] = @ + 1]

\* ------------------------------------------------------------------ Cacher.Get
\* A lookup that lets the ".empty" marker hide the symlink.
HasLinkUnlessMarked(a) == link[a] # None /\ ~empty[a]

\* Disk.OutputIDFromAction: os.Readlink finds the symlink of the action.
HasLink(a) == link[a] # None

\* Disk.OutputIDFromAction (os.Readlink) and, in rev 2, the os.Stat of the
\* ".empty" marker in Bucket.OutputIDFromAction.
GetReadlink(h) ==
  /\ Alive /\ pc[h] = "get"
  /\ LET a == Hex(req[h].ActionID) IN
       IF HasLink(a)
       THEN /\ outputID' = [outputID EXCEPT ![h] = link[a]]
            /\ pc' = [pc EXCEPT ![h] = "flight"]
            /\ hist' = hist
       ELSE IF rev = 2 /\ empty[a]
       THEN /\ outputID' = [outputID EXCEPT ![h] = ""]
            /\ pc' = [pc EXCEPT ![h] = "flight"]
            /\ hist' = [hist EXCEPT !.nolink = @ \cup {h}]
       ELSE /\ outputID' = outputID
            /\ pc' = [pc EXCEPT ![h] = "attr"]
            /\ hist' = [hist EXCEPT !.nolink = @ \cup {h}]
  /\ UNCHANGED <<mainv, exit, req, pathname, err, rd, tmp, resp, outv, diskv, remv,
                 qvars, flight>>

\* An os.Symlink that replaces the symlink of the action.
LinkReplace(a, o) == [link EXCEPT ![a] = o]

\* os.Symlink(outputPathname, actionPathname): fails with os.ErrExist, and
\* changes nothing, when the symlink of the action exists.
LinkAfter(a, o) == IF link[a] = None THEN [link EXCEPT ![a] = o] ELSE link

\* A lookup that writes the marker whenever it resolves no output id.
MarksAnyMiss(o) == o \in {None, ""}

\* gcerrors.Code(err) == gcerrors.NotFound: the answer o of b.bucket.Attributes
\* for which rev 2 writes the ".empty" marker.
Marks(o) == o = None

\* b.bucket.Attributes answers NotFound or the metadata.
AttrAnswer(h) ==
  /\ Alive /\ pc[h] = "attr"
  /\ LET a == Hex(req[h].ActionID)
         o == raction[a] IN
       /\ outputID' = [outputID EXCEPT ![h] = IF o = None THEN "" ELSE o]
       /\ empty' = IF rev = 2 /\ Marks(o) THEN [empty EXCEPT ![a] = TRUE] ELSE empty
       /\ link' = IF rev = 2 /\ o \notin {None, ""} THEN LinkAfter(a, o) ELSE link
       /\ hist' = [Remote(h) EXCEPT
                     !.notfound = IF o = None THEN @ \cup {a} ELSE @,
                     !.symlink[h] = IF rev = 2 /\ o \notin {None, ""}
                                    THEN IF link[a] = None THEN "new" ELSE "exists"
                                    ELSE @]
  /\ pc' = [pc EXCEPT ![h] = "flight"]
  /\ UNCHANGED <<mainv, exit, req, pathname, err, rd, tmp, resp, outv, output, remv,
                 qvars, flight>>

\* b.bucket.Attributes fails with another error: rev 2 returns it; rev 1
\* ignores it and reads attr.Metadata of the nil attributes.
AttrError(h) ==
  /\ Alive /\ pc[h] = "attr"
  /\ hist' = [Remote(h) EXCEPT !.attrerr = @ \cup {h}]
  /\ IF rev = 2
     THEN /\ pc' = [pc EXCEPT ![h] = "ret"]
          /\ pathname' = [pathname EXCEPT ![h] = NoPath]
          /\ err' = [err EXCEPT ![h] = "remote"]
          /\ exit' = exit
     ELSE /\ exit' = "panic: nil pointer dereference"
          /\ UNCHANGED <<pc, pathname, err>>
  /\ UNCHANGED <<mainv, req, outputID, rd, tmp, resp, outv, diskv, remv, qvars,
                 flight>>

\* c.flight.Do("get"+outputID, ...) / c.flight.Do("put"+outputID, ...)
FlightDo(h) ==
  /\ Alive /\ pc[h] = "flight"
  /\ IF InFlight(Key(h))
     THEN /\ pc' = [pc EXCEPT ![h] = "shared"]
          /\ flight' = flight
          /\ hist' = [hist EXCEPT !.shared = @ \cup {h}]
     ELSE /\ pc' = [pc EXCEPT ![h] = IF req[h].Command = cmdGet THEN "stat" ELSE "po_stat"]
          /\ flight' = flight \cup {Key(h)}
          /\ hist' = hist
  /\ UNCHANGED <<mainv, exit, req, outputID, pathname, err, rd, tmp, resp, outv,
                 diskv, remv, qvars>>

\* A Bucket.GetOutput that never finds the blob on disk.
OnDiskNever(h) == FALSE

\* Bucket.GetOutput: _, err := os.Stat(pathname); err == nil
OnDisk(h) == StatOK(OutputPath(outputID[h]))

\* Bucket.GetOutput: os.Stat of the blob; it is returned when on disk.
GetOutputStat(h) ==
  /\ Alive /\ pc[h] = "stat"
  /\ IF OnDisk(h)
     THEN Deliver(h, OutputPath(outputID[h]), NoErr)
     ELSE /\ pc' = [pc EXCEPT ![h] = "download"]
          /\ UNCHANGED <<pathname, err, flight>>
  /\ hist' = [hist EXCEPT
       !.absent = IF StatOK(OutputPath(outputID[h])) THEN @ ELSE @ \cup {h}]
  /\ UNCHANGED <<mainv, exit, req, outputID, rd, tmp, resp, outv, diskv, remv,
                 qvars>>

\* Bucket.GetOutput: b.bucket.Download.  ans is the answer of the bucket:
\* NoErr, "notfound" or "remote".  Rev 2 buffers the object and gives up on
\* an error; rev 1 pipes the download into Disk.PutOutput, which meets the
\* error in io.Copy.
Download(h, ans) ==
  /\ Alive /\ pc[h] = "download"
  /\ LET o == outputID[h] IN
       /\ (ans = "notfound") => routput[o] = None
       /\ (ans = NoErr) => routput[o] # None
       /\ hist' = [Remote(h) EXCEPT !.download[o] = @ + 1,
                                      !.failed = IF ans # NoErr THEN @ \cup {o} ELSE @]
       /\ IF rev = 2 /\ ans # NoErr
          THEN /\ Deliver(h, NoPath, IF ans = "notfound" THEN NoErr ELSE ans)
               /\ rd' = rd
          ELSE /\ rd' = [rd EXCEPT ![h] = [data |-> routput[o], bad |-> ans]]
               /\ pc' = [pc EXCEPT ![h] = "po_stat"]
               /\ UNCHANGED <<pathname, err, flight>>
  /\ UNCHANGED <<mainv, exit, req, outputID, tmp, resp, outv, diskv, remv, qvars>>

\* ------------------------------------------------------------------ Disk.PutOutput
\* What the caller of Disk.PutOutput does with its error: Bucket.GetOutput
\* of rev 1 turns NotFound (the download's error, met by io.Copy) into a miss.
PutOutputErr(h, e) ==
  IF req[h].Command = cmdGet /\ rev = 1 /\ e = "notfound" THEN NoErr ELSE e

\* A Disk.PutOutput without the "already exists" shortcut.
ExistsNever(h) == FALSE

\* os.Stat(outputPathname) == nil: "do nothing if already exists"
Exists(h) == StatOK(OutputPath(outputID[h]))

\* Disk.PutOutput returns the existing blob, or os.CreateTemp makes the
\* temporary file.
PutOutputStat(h) ==
  /\ Alive /\ pc[h] = "po_stat"
  /\ IF Exists(h)
     THEN /\ Deliver(h, OutputPath(outputID[h]), NoErr)
          /\ tmp' = tmp
     ELSE /\ tmp' = [tmp EXCEPT ![h] = [data |-> rd[h].data, len |-> 0]]
          /\ pc' = [pc EXCEPT ![h] = "po_copy"]
          /\ UNCHANGED <<pathname, err, flight>>
  /\ UNCHANGED <<mainv, exit, req, outputID, rd, resp, outv, diskv, remv, qvars, hist>>

\* io.Copy(f, r) writes the next part of the stream to the temporary file.
PutOutputCopy(h) ==
  /\ Alive /\ pc[h] = "po_copy"
  /\ rd[h].data # None /\ rd[h].bad # "notfound"
  /\ tmp[h].len < NChunks
  /\ tmp' = [tmp EXCEPT ![h].len = @ + 1]
  /\ UNCHANGED <<mainv, exit, req, pc, outputID, pathname, err, rd, resp, outv,
                 diskv, remv, qvars, flight, hist>>

\* io.Copy, f.Close or os.Rename fails: the error of the stream (rev 1 pipe)
\* or a local I/O error.  The deferred os.RemoveAll removes the temporary
\* file and Disk.PutOutput returns "", false, err.
PutOutputFail(h, e) ==
  /\ Alive /\ pc[h] = "po_copy"
  /\ e = "io" \/ (e # NoErr /\ e = rd[h].bad)
  /\ tmp' = [tmp EXCEPT ![h] = NoFile]
  /\ hist' = [hist EXCEPT !.failed = @ \cup {outputID[h]}]
  /\ Deliver(h, NoPath, PutOutputErr(h, e))
  /\ UNCHANGED <<mainv, exit, req, outputID, rd, resp, outv, diskv, remv, qvars>>

\* A Disk.PutOutput that renames before the copy is complete.
CopyDoneEarly(h) == TRUE

\* io.Copy has returned nil and f.Close has flushed the file.
CopyDone(h) == tmp[h].len = NChunks /\ rd[h].bad = NoErr

\* os.Rename(f.Name(), outputPathname).  Bucket.PutOutput goes on to
\* schedule the upload; Bucket.GetOutput returns the pathname.
PutOutputRename(h) ==
  /\ Alive /\ pc[h] = "po_copy"
  /\ CopyDone(h)
  /\ output' = [output EXCEPT ![outputID[h]] = tmp[h]]
  /\ tmp' = [tmp EXCEPT ![h] = NoFile]
  /\ IF req[h].Command = cmdGet
     THEN Deliver(h, OutputPath(outputID[h]), NoErr)
     ELSE /\ pc' = [pc EXCEPT ![h] = "send"]
          /\ UNCHANGED <<pathname, err, flight>>
  /\ UNCHANGED <<mainv, exit, req, outputID, rd, resp, outv, link, empty, remv,
                 qvars, hist>>

\* ------------------------------------------------------------------ Bucket.PutOutput
\* A Bucket.PutOutput that returns without scheduling the upload.
NotSent(h) == jobs

\* The channel after b.jobs <- pathname
Sent(h) == Append(jobs, OutputPath(outputID[h]))

\* b.jobs <- pathname: blocks while the channel is full.
Send(h) ==
  /\ Alive /\ pc[h] = "send" /\ ~closed
  /\ Len(jobs) < QueueCap
  /\ jobs' = Sent(h)
  /\ hist' = [hist EXCEPT !.enq[outputID[h]] = @ + 1]
  /\ Deliver(h, OutputPath(outputID[h]), NoErr)
  /\ UNCHANGED <<mainv, exit, req, outputID, rd, tmp, resp, outv, diskv, remv,
                 closed, wpc, wjob>>

\* b.jobs <- pathname on the closed channel (also when the channel is closed
\* while the sender is blocked): the goroutine panics.
SendClosed(h) ==
  /\ Alive /\ pc[h] = "send" /\ closed
  /\ exit' = "panic: send on closed channel"
  /\ UNCHANGED <<mainv, hvars, outv, diskv, remv, qvars, flight, hist>>

\* ------------------------------------------------------------------ Bucket.LinkActionToOutput
\* b.bucket.Upload of the zero-length action object with its output_id
\* metadata; ok is whether the bucket accepts it.  Rev 1 uploads first and
\* links on success; rev 2 uploads after it made a new link.
UploadAction(h, ok) ==
  /\ Alive /\ pc[h] = "upload"
  /\ hist' = [Remote(h) EXCEPT !.actup = @ \cup {h}]
  /\ raction' = IF ok THEN [raction EXCEPT ![Hex(req[h].ActionID)] = outputID[h]]
                ELSE raction
  /\ err' = [err EXCEPT ![h] = IF ok THEN NoErr ELSE "remote"]
  /\ pc' = [pc EXCEPT ![h] = IF ok /\ rev = 1 THEN "symlink" ELSE "ret"]
  /\ UNCHANGED <<mainv, exit, req, outputID, pathname, rd, tmp, resp, outv, diskv,
                 routput, qvars, flight>>

\* Disk.LinkActionToOutput: os.Symlink; os.ErrExist is not an error.
Symlink(h) ==
  /\ Alive /\ pc[h] = "symlink"
  /\ LET a == Hex(req[h].ActionID) IN
       /\ link' = LinkAfter(a, outputID[h])
       /\ pc' = [pc EXCEPT ![h] = IF rev = 2 /\ link[a] = None THEN "upload" ELSE "ret"]
       /\ hist' = [hist EXCEPT
            !.symlink[h] = IF link[a] = None THEN "new" ELSE "exists"]
  /\ UNCHANGED <<mainv, exit, req, outputID, pathname, err, rd, tmp, resp, outv,
                 empty, output, remv, qvars, flight>>

\* ------------------------------------------------------------------ the handler goroutine
\* The response of the goroutine: the switch on req.Command fills DiskPath,
\* Err and Miss; the deferred function stats DiskPath for every command but
\* close and decodes the output id from the file name.
Response(h) ==
  LET c    == req[h].Command
      r1   == [resp[h] EXCEPT !.DiskPath = IF c = cmdClose THEN NoPath ELSE pathname[h],
                              !.Err = IF c = cmdClose THEN NoErr ELSE err[h],
                              !.Miss = c = cmdGet /\ pathname[h] = NoPath]
      name == Base(r1.DiskPath)
  IN  IF c = cmdClose THEN r1
      ELSE IF ~StatOK(r1.DiskPath) THEN [r1 EXCEPT !.Err = "stat"]
      ELSE IF Unhex(name) = None THEN [r1 EXCEPT !.Err = "invalid output id"]
      ELSE [r1 EXCEPT !.OutputID = Unhex(name)]

\* A deferred function that writes without taking the mutex.
MuIgnored == TRUE

\* sync.Mutex: mu.Lock() returns when nobody holds the mutex.
MuFree == mu = 0

\* The handler returns; the deferred function completes resp, takes mu and
\* enc.Encode(resp) starts writing the record into the bufio.Writer.  (The
\* os.Stat of the deferred function cannot change while the handler waits
\* for mu: no file is ever removed from the output directory.)
Lock(h) ==
  /\ Alive /\ pc[h] = "ret"
  /\ MuFree
  /\ mu' = h
  /\ resp' = [resp EXCEPT ![h] = Response(h)]
  /\ w' = Append(w, <<h, 1>>)
  /\ pc' = [pc EXCEPT ![h] = "encode"]
  /\ UNCHANGED <<mainv, exit, req, outputID, pathname, err, rd, tmp, out, diskv,
                 remv, qvars, flight, hist>>

\* enc.Encode(resp) writes the rest of the record into the bufio.Writer.
Encode(h) ==
  /\ Alive /\ pc[h] = "encode"
  /\ w' = Append(w, <<h, 2>>)
  /\ pc' = [pc EXCEPT ![h] = "flush"]
  /\ UNCHANGED <<mainv, exit, req, outputID, pathname, err, rd, tmp, resp, mu, out,
                 diskv, remv, qvars, flight, hist>>

\* w.Flush() and mu.Unlock()
Flush(h) ==
  /\ Alive /\ pc[h] = "flush"
  /\ out' = out \o w
  /\ w' = <<>>
  /\ mu' = IF mu = h THEN 0 ELSE mu
  /\ pc' = [pc EXCEPT ![h] = "done"]
  /\ UNCHANGED <<mainv, exit, req, outputID, pathname, err, rd, tmp, resp, diskv,
                 remv, qvars, flight, hist>>

\* ------------------------------------------------------------------ Bucket.Close
\* close(b.jobs); closing a closed channel panics.
CloseJobs(h) ==
  /\ Alive /\ pc[h] = "close"
  /\ IF closed
     THEN /\ exit' = "panic: close of closed channel"
          /\ UNCHANGED <<pc, closed, hist>>
     ELSE /\ closed' = TRUE
          /\ pc' = [pc EXCEPT ![h] = "wait"]
          /\ hist' = [hist EXCEPT !.closes = @ + 1]
          /\ exit' = exit
  /\ UNCHANGED <<mainv, req, outputID, pathname, err, rd, tmp, resp, outv, diskv,
                 remv, jobs, wpc, wjob, flight>>

\* A Bucket.Close that returns without waiting for the workers.
WgNoWait == TRUE

\* b.wg.Wait() returns when every worker has called wg.Done().
WgDone == \A k \in Workers : wpc[k] = "done"

Wait(h) ==
  /\ Alive /\ pc[h] = "wait"
  /\ WgDone
  /\ pc' = [pc EXCEPT ![h] = "ret"]
  /\ UNCHANGED <<mainv, exit, req, outputID, pathname, err, rd, tmp, resp, outv,
                 diskv, remv, qvars, flight, hist>>

\* ------------------------------------------------------------------ Bucket.Start: the workers
\* for pathname := range b.jobs: receive the next job.
WorkerRecv(k) ==
  /\ Alive /\ wpc[k] = "recv"
  /\ jobs # <<>>
  /\ wjob' = [wjob EXCEPT ![k] = Head(jobs)]
  /\ jobs' = Tail(jobs)
  /\ wpc' = [wpc EXCEPT ![k] = "upload"]
  /\ UNCHANGED <<mainv, exit, hvars, outv, diskv, remv, closed, flight, hist>>

\* A worker that sends the pathname of a failed upload to the channel again.
Requeue(k, ok) == IF ok THEN jobs ELSE Append(jobs, wjob[k])

\* The channel after an upload attempt: slog.Error / slog.Debug and the next
\* turn of the range loop; nothing is sent.
Dropped(k, ok) == jobs

\* os.Open and b.bucket.Upload of the blob; a failure is logged and the job
\* is dropped.
WorkerUpload(k, ok) ==
  /\ Alive /\ wpc[k] = "upload"
  /\ LET o == Base(wjob[k]) IN
       /\ routput' = IF ok /\ output[o] # NoFile
                     THEN [routput EXCEPT ![o] = output[o].data] ELSE routput
       /\ hist' = [hist EXCEPT !.attempt[o] = @ + 1,
                               !.upfail = IF ok THEN @ ELSE @ \cup {o}]
  /\ jobs' = Dropped(k, ok)
  /\ wjob' = [wjob EXCEPT ![k] = NoPath]
  /\ wpc' = [wpc EXCEPT ![k] = "recv"]
  /\ UNCHANGED <<mainv, exit, hvars, outv, diskv, raction, closed, flight>>

\* The range loop ends: the channel is closed and empty; defer b.wg.Done().
WorkerDone(k) ==
  /\ Alive /\ wpc[k] = "recv"
  /\ jobs = <<>> /\ closed
  /\ wpc' = [wpc EXCEPT ![k] = "done"]
  /\ UNCHANGED <<mainv, exit, hvars, outv, diskv, remv, jobs, closed, wjob, flight,
                 hist>>

\* ------------------------------------------------------------------ specifications
Errs == {NoErr, "notfound", "remote"}

\* Cacher.Get up to the download
GetStep(h) ==
  \/ GetReadlink(h)
  \/ AttrAnswer(h)
  \/ AttrError(h)
  \/ GetOutputStat(h)
  \/ \E ans \in Errs : Download(h, ans)

\* Cacher.Put after the blob is on disk
PutStep(h) ==
  \/ Send(h)
  \/ \E ok \in BOOLEAN : UploadAction(h, ok)
  \/ Symlink(h)

\* singleflight and Disk.PutOutput, shared by Get and Put
DiskStep(h) ==
  \/ FlightDo(h)
  \/ PutOutputStat(h)
  \/ PutOutputCopy(h)
  \/ \E e \in {"io", "notfound", "remote"} : PutOutputFail(h, e)
  \/ PutOutputRename(h)

\* the deferred function of the handler
WriteStep(h) ==
  \/ Lock(h)
  \/ Encode(h)
  \/ Flush(h)

\* the upload workers while the channel is open
WorkerStep(k) ==
  \/ WorkerRecv(k)
  \/ \E ok \in BOOLEAN : WorkerUpload(k, ok)

\* Bucket.Close and what a closed channel does to senders and workers
CloseStep ==
  \/ \E h \in Handlers : CloseJobs(h) \/ Wait(h) \/ SendClosed(h)
  \/ \E k \in Workers : WorkerDone(k)

\* The whole program: any request may arrive.
Next ==
  \/ Handshake
  \/ HandshakeFlush
  \/ Decode(AnyReqs)
  \/ Eof
  \/ \E h \in Handlers : GetStep(h) \/ PutStep(h) \/ DiskStep(h) \/ WriteStep(h)
  \/ \E k \in Workers : WorkerStep(k)
  \/ CloseStep

Spec == Init /\ [][Next]_vars

\* A session of get requests only.
NextGet ==
  \/ Handshake
  \/ HandshakeFlush
  \/ Decode(GetReqs)
  \/ Eof
  \/ \E h \in Handlers : GetStep(h) \/ DiskStep(h) \/ WriteStep(h)

SpecGet == Init /\ [][NextGet]_vars

\* A session of get requests with the storage file of rev 2, the revision
\* that keeps the ".empty" markers.
InitMarker == Init /\ rev = 2

SpecMarker == InitMarker /\ [][NextGet]_vars

\* The bucket holds nothing at startup.
InitEmpty == Init /\ \A a \in Actions : raction[a] = None

\* A session of put and close requests against an empty bucket; stdin stays
\* open.
NextClose ==
  \/ Handshake
  \/ HandshakeFlush
  \/ Decode(ClosingReqs)
  \/ \E h \in Handlers : PutStep(h) \/ DiskStep(h) \/ WriteStep(h)
  \/ \E k \in Workers : WorkerStep(k)
  \/ CloseStep

SpecClose == InitEmpty /\ [][NextClose]_vars

\* The bucket resolves a1 to o1 and holds the blob.
InitStored == Init /\ \A a \in Actions : raction[a] = Hex("o1") /\ routput[raction[a]] # None

\* A session of put and get requests for one output, the put carrying
\* other content than the bucket holds; stdin stays open.
NextStore ==
  \/ Handshake
  \/ HandshakeFlush
  \/ Decode(StoreReqs)
  \/ \E h \in Handlers : GetStep(h) \/ PutStep(h) \/ DiskStep(h) \/ WriteStep(h)
  \/ \E k \in Workers : WorkerStep(k)

SpecStore == InitStored /\ [][NextStore]_vars

\* A session of put requests to a program started with -readonly; stdin
\* stays open.
NextReadonly ==
  \/ Handshake
  \/ HandshakeFlush
  \/ Decode(ReadonlyReqs)
  \/ \E h \in Handlers : PutStep(h) \/ DiskStep(h) \/ WriteStep(h)
  \/ \E k \in Workers : WorkerStep(k)

SpecReadonly == InitReadonly /\ [][NextReadonly]_vars

\* A session of get and put requests in which a put may declare a BodySize
\* its payload does not have; the bucket resolves a1 to o1 and holds the blob.
NextFrame ==
  \/ Handshake
  \/ HandshakeFlush
  \/ Decode(FrameReqs)
  \/ \E h \in Handlers : GetStep(h) \/ PutStep(h) \/ DiskStep(h) \/ WriteStep(h)
  \/ \E k \in Workers : WorkerStep(k)

SpecFrame == InitStored /\ [][NextFrame]_vars

\* The steps of handler goroutine h in a session of gets.
Progress(h) == GetStep(h) \/ DiskStep(h) \/ WriteStep(h)

\* A session of get requests in which the Go scheduler lets every goroutine
\* that can run take its next step and every call to the bucket returns;
\* when stdin ends is up to the client.
SpecLive == Init /\ [][NextGet]_vars /\ \A h \in Handlers : WF_vars(Progress(h))

\* Every handler started so far has written its response.
AllAnswered == \A h \in 1..decoded : pc[h] = "done"

\* A client that sends a request after it has read the responses to the
\* earlier ones, sends a put only for an action without a symlink, and names
\* every content by one OutputID (o1 for "x", o2 for "y").
NextRound ==
  \/ Handshake
  \/ HandshakeFlush
  \/ AllAnswered /\ Decode(GetReqs)
  \/ /\ AllAnswered /\ link[Hex("a1")] = None
     /\ Decode(AddressedPutReqs)
  \/ \E h \in Handlers : GetStep(h) \/ PutStep(h) \/ DiskStep(h) \/ WriteStep(h)
  \/ \E k \in Workers : WorkerStep(k)

SpecRound == InitRound /\ [][NextRound]_vars

\* The handlers that have not yet written their response.
Busy == {h \in 1..decoded : pc[h] # "done"}

\* A session of gets and of puts that name two outputs for one action, the
\* bucket resolving the action to the first; the client has at most two
\* requests outstanding and stdin stays open.
NextLink ==
  \/ Handshake
  \/ HandshakeFlush
  \/ /\ Cardinality(Busy) <= 1
     /\ Decode(LinkReqs)
  \/ \E h \in Handlers : GetStep(h) \/ PutStep(h) \/ DiskStep(h) \/ WriteStep(h)
  \/ \E k \in Workers : WorkerStep(k)

SpecLink == InitStored /\ [][NextLink]_vars

\* A session of puts of two outputs against an empty bucket, the client
\* sending a put after it has read the responses to the earlier ones (their
\* uploads may still be queued or running); stdin stays open and the queue
\* is not closed.  The Go scheduler runs every worker goroutine that can
\* run and every bucket.Upload returns.
NextUpload ==
  \/ Handshake
  \/ HandshakeFlush
  \/ /\ AllAnswered
     /\ Decode(AddressedPutReqs)
  \/ \E h \in Handlers : PutStep(h) \/ DiskStep(h) \/ WriteStep(h)
  \/ \E k \in Workers : WorkerStep(k)

SpecUpload ==
  InitEmpty /\ [][NextUpload]_vars /\ \A k \in Workers : WF_vars(WorkerStep(k))

\* ------------------------------------------------------------------ properties
\* The deferred function of handler h has built its response.
Responded(h) == pc[h] \in {"encode", "flush", "done"}

\* Some byte of the response of handler h is in the buffer or on stdout.
Written(h) == \E i \in 1..Len(out \o w) : (out \o w)[i][1] = h

IsGet(h)   == req[h].Command = cmdGet
IsPut(h)   == req[h].Command = cmdPut
IsClose(h) == req[h].Command = cmdClose

\* C1 (drain barrier): when any byte of the response to a close request has
\* been written, every pathname ever sent to the jobs channel has been
\* received by a worker and its upload attempt has finished: the channel is
\* empty, no worker holds a job, and the attempts equal the insertions.
DrainBarrier ==
  \A h \in Handlers :
    (IsClose(h) /\ Written(h)) =>
      /\ jobs = <<>>
      /\ \A k \in Workers : wpc[k] # "upload"
      /\ \A o \in Outputs : hist.attempt[o] = hist.enq[o]

\* C1 witness: a close response is on stdout after a put had its blob
\* queued and a worker attempted the upload.
DrainBarrierWitness ==
  \E h \in Handlers :
    /\ IsClose(h) /\ pc[h] = "done"
    /\ \E o \in Outputs : hist.enq[o] = 1 /\ hist.attempt[o] = 1

\* C2 (no insertion into a closed queue): no put handler is at the send
\* `b.jobs <- pathname` while the channel is closed, no send meets the closed
\* channel, and the channel is never closed twice.
NoSendAfterClose ==
  /\ \A h \in Handlers : ~(closed /\ pc[h] = "send")
  /\ exit \notin {"panic: send on closed channel", "panic: close of closed channel"}

\* A stream of whole records: the two writes of a record are adjacent; only
\* the last record may still lack its second write.
Framed(s) ==
  \A i \in 1..Len(s) :
    /\ s[i][2] = 1 => (i = Len(s) \/ s[i + 1] = <<s[i][1], 2>>)
    /\ s[i][2] = 2 => (i > 1 /\ s[i - 1] = <<s[i][1], 1>>)

Whole(s) == Framed(s) /\ (s # <<>> => s[Len(s)][2] = 2)

\* C3 (output serialization): at most one handler is between mu.Lock and
\* mu.Unlock, the bytes written so far are a sequence of whole records
\* followed by at most one record in progress, stdout holds whole records
\* only, and once a handler exists the handshake record is on stdout, first.
OutputSerialized ==
  /\ Cardinality({h \in Handlers : pc[h] \in {"encode", "flush"}}) <= 1
  /\ Framed(out \o w)
  /\ Whole(out)
  /\ (decoded > 0 => Len(out) >= 2 /\ out[1] = <<0, 1>> /\ out[2] = <<0, 2>>)

\* C3 witness: one handler is writing its record while another has its
\* response ready and waits for the mutex.
OutputSerializedWitness ==
  \E g, h \in Handlers : pc[g] = "encode" /\ pc[h] = "ret" /\ mu = g

\* C4 (get miss): the response to a get whose action has no symlink and no
\* action object in the bucket has Miss = true and an empty DiskPath.
GetMissResponse ==
  \A h \in Handlers :
    (/\ IsGet(h) /\ Responded(h)
     /\ link[Hex(req[h].ActionID)] = None
     /\ raction[Hex(req[h].ActionID)] = None)
    => (resp[h].Miss /\ resp[h].DiskPath = NoPath)

\* C5 (a miss carries no error): the response to a get that resolved its
\* action to an output whose blob is neither on disk nor in the bucket has
\* Miss = true and an empty Err.
MissCarriesNoError ==
  \A h \in Handlers :
    (/\ IsGet(h) /\ Responded(h)
     /\ outputID[h] \in Outputs
     /\ output[outputID[h]] = NoFile
     /\ routput[outputID[h]] = None)
    => (resp[h].Miss /\ resp[h].Err = NoErr)

\* C6 (negative cache stability): a get that starts after a get for the same
\* action has seen NotFound from bucket.Attributes, and finds no symlink for
\* the action, makes no call to the bucket and its response is a miss.
NegativeCacheStable ==
  \A h \in hist.late \cap hist.nolink :
    /\ hist.remote[h] = 0
    /\ Responded(h) => resp[h].Miss

\* C7 (remote errors are failures, not misses): the response to a get whose
\* bucket.Attributes failed with an error other than NotFound carries that
\* error in Err and has Miss = false.
RemoteErrorReported ==
  \A h \in hist.attrerr :
    Responded(h) => (resp[h].Err = "remote" /\ ~resp[h].Miss)

\* The get handlers that answered with the blob of output o.
Hits(o) ==
  {h \in Handlers : IsGet(h) /\ Responded(h) /\ outputID[h] = o /\ ~resp[h].Miss}

\* C8 (single-flight dedup): for an output that was absent on disk, is in
\* the bucket and met no download or disk failure, concurrent gets cause at
\* most one bucket.Download, exactly one once a get has answered, and every
\* get answers with the same path, the output path of that blob, without an
\* error.
SingleFlightDedup ==
  \A o \in Outputs :
    (routput[o] # None /\ o \notin hist.failed) =>
      /\ hist.download[o] <= 1
      /\ \A h \in Handlers :
           (IsGet(h) /\ Responded(h) /\ outputID[h] = o) =>
             /\ hist.download[o] = 1
             /\ resp[h].DiskPath = OutputPath(o)
             /\ resp[h].Err = NoErr /\ ~resp[h].Miss

\* C8 witness: two gets for one action have answered with the same path
\* after one download, one of them having shared the other's call.
SingleFlightDedupWitness ==
  \E o \in Outputs : \E g, h \in Hits(o) :
    /\ g # h /\ pc[g] = "done" /\ pc[h] = "done"
    /\ req[g].ActionID = req[h].ActionID
    /\ resp[g].DiskPath = resp[h].DiskPath
    /\ hist.download[o] = 1 /\ g \in hist.shared

\* C9 (idempotent store): at most one pathname per output is ever sent to
\* the jobs channel, and every put that answers without an error answers
\* with the output path of its OutputID.
IdempotentStore ==
  /\ \A o \in Outputs : hist.enq[o] <= 1
  /\ \A h \in Handlers :
       (IsPut(h) /\ Responded(h) /\ resp[h].Err = NoErr) =>
         resp[h].DiskPath = OutputPath(Hex(req[h].OutputID))

\* C9 witness: two puts of one OutputID have both answered without an error,
\* with the same path, and one upload job was queued.
IdempotentStoreWitness ==
  \E g, h \in Handlers :
    /\ g # h /\ IsPut(g) /\ IsPut(h) /\ pc[g] = "done" /\ pc[h] = "done"
    /\ req[g].OutputID = req[h].OutputID
    /\ resp[g].Err = NoErr /\ resp[h].Err = NoErr
    /\ resp[g].DiskPath = resp[h].DiskPath
    /\ hist.enq[Hex(req[g].OutputID)] = 1

\* C10 (atomic output write): the file under the final name of every output
\* is absent or holds all NChunks parts of the content of one writer.
AtomicOutputWrite ==
  \A o \in Outputs :
    output[o] = NoFile \/ (output[o].len = NChunks /\ output[o].data \in Contents)

\* C10 witness: the blob is in place, an earlier write of it failed midway,
\* and a concurrent writer of other content has a partly written temporary
\* file for the same output.
AtomicOutputWriteWitness ==
  \E o \in Outputs : \E h \in Handlers :
    /\ output[o] # NoFile
    /\ outputID[h] = o /\ tmp[h] # NoFile
    /\ tmp[h].len > 0 /\ tmp[h].len < NChunks
    /\ tmp[h].data # output[o].data

\* C11 (read-only mode): in a program started with -readonly the handshake
\* names no put command, and the put requests of the session write nothing:
\* no output blob and no action symlink is on disk, no temporary file is
\* written, no pathname was sent to the jobs channel, and no handler made a
\* call to the bucket.
ReadonlyWritesNothing ==
  readonly =>
    /\ \A i \in 1..Len(known) : known[i] # cmdPut
    /\ \A o \in Outputs : output[o] = NoFile /\ hist.enq[o] = 0 /\ hist.attempt[o] = 0
    /\ \A a \in Actions : link[a] = None
    /\ \A h \in Handlers : IsPut(h) => (tmp[h] = NoFile /\ hist.remote[h] = 0)

\* C12 (framing integrity): when the request decoded as number h declared a
\* positive BodySize and a payload of another length followed, the session
\* has ended with the fatal error, no handler was started for that request,
\* and it is the last request decoded.
FramingIntegrity ==
  \A h \in hist.bad :
    /\ exit = "fatal" /\ main = "returned"
    /\ pc[h] = "idle" /\ req[h] = NoReq
    /\ decoded = h

\* C12 witness: the second request was the put with the wrong length, and
\* the session ended while the handler of the first was still at work.
FramingIntegrityWitness ==
  /\ hist.bad = {2} /\ exit = "fatal"
  /\ pc[1] \notin {"idle", "done"}

\* C13 (handler failure containment): no failure inside a handler ends the
\* process (the session ends only by end of input or a framing error), and
\* a handler whose storage call failed answers with Err set.
HandlerFailureContained ==
  /\ exit \in {None, "eof", "fatal"}
  /\ \A h \in Handlers : (Responded(h) /\ err[h] # NoErr) => resp[h].Err # NoErr

\* C14 (round trip): when a put for an action without a symlink has answered
\* without an error and a get for the same action, sent after that answer,
\* has answered, the get is a hit without an error, its DiskPath is the
\* output path of the put's OutputID, the file there holds the whole content
\* of the put, and the get made no call to the bucket.
RoundTrip ==
  \A h, g \in Handlers :
    (/\ h < g /\ IsPut(h) /\ IsGet(g) /\ req[h].ActionID = req[g].ActionID
     /\ resp[h].Err = NoErr /\ Responded(g))
    => /\ ~resp[g].Miss /\ resp[g].Err = NoErr
       /\ resp[g].DiskPath = OutputPath(Hex(req[h].OutputID))
       /\ resp[g].OutputID = req[h].OutputID
       /\ output[Hex(req[h].OutputID)] = [data |-> req[h].Body, len |-> NChunks]
       /\ hist.remote[g] = 0

\* C14 witness: the round trip has completed for an action that has a
\* ".empty" marker, the bucket holding neither blob.
RoundTripWitness ==
  \E h, g \in Handlers :
    /\ h < g /\ IsPut(h) /\ IsGet(g) /\ pc[g] = "done"
    /\ resp[h].Err = NoErr /\ ~resp[g].Miss
    /\ rev = 2 /\ empty[Hex(req[g].ActionID)]
    /\ req[h].OutputID = "o2" /\ resp[g].DiskPath = OutputPath(Hex("o2"))
    /\ \A o \in Outputs : routput[o] = None

\* The get handlers whose os.Readlink found the symlink of their action.
Linked == {h \in Handlers : IsGet(h) /\ pc[h] \notin {"idle", "get"} /\ h \notin hist.nolink}

\* C15 as claimed (local tier is trusted): a get that found the symlink of
\* its action makes no call to the bucket, also when the blob the symlink
\* names is not on disk.
LocalTierNoRemote ==
  \A h \in Linked : hist.remote[h] = 0

\* C15 amended: a get that found the symlink of its action calls the bucket
\* at most once, for the download, and only when its os.Stat did not find
\* the blob on disk; when it made no call and ran Bucket.GetOutput itself,
\* it answers with the output path the symlink names, a hit without error.
LocalTierTrusted ==
  \A h \in Linked :
    /\ hist.remote[h] <= 1
    /\ hist.remote[h] = 1 => h \in hist.absent
    /\ (Responded(h) /\ hist.remote[h] = 0 /\ h \notin hist.shared) =>
         /\ resp[h].DiskPath = OutputPath(link[Hex(req[h].ActionID)])
         /\ resp[h].Err = NoErr /\ ~resp[h].Miss

\* C15 witness: a get that found the symlink and the blob has answered with
\* the path while the bucket was never called by it.
LocalTierTrustedWitness ==
  \E h \in Linked :
    /\ pc[h] = "done" /\ hist.remote[h] = 0 /\ h \notin hist.shared
    /\ resp[h].DiskPath = OutputPath(Hex("o1"))

\* The number of response records of request h on stdout.
Records(h) ==
  Cardinality({i \in 1..Len(out) : out[i] = <<h, 2>> /\ i > 1 /\ out[i - 1] = <<h, 1>>})

\* C16 (exactly one response per request): stdout never holds two responses
\* with the ID of one request, and when the process has ended at the end of
\* input, stdout holds one response for every request that was decoded,
\* also for those whose handlers were running when the end was read.
EveryRequestAnswered ==
  /\ \A h \in Handlers : Records(h) <= 1
  /\ exit = "eof" => \A h \in 1..decoded : Records(h) = 1

\* C17 (action links are never relinked): no step changes the target of an
\* existing action symlink, and a handler whose os.Symlink met the existing
\* symlink goes on without an error.
LinksNeverRelinked ==
  [][/\ \A a \in Actions : link[a] # None => link'[a] = link[a]
     /\ \A h \in Handlers :
          (hist.symlink[h] # "exists" /\ hist'.symlink[h] = "exists") => err'[h] = NoErr]_vars

\* C17 witness: the symlink maps a1 to o1 after a put of another output for
\* a1 met it and answered without an error.
LinksNeverRelinkedWitness ==
  \E h \in Handlers :
    /\ IsPut(h) /\ pc[h] = "done" /\ hist.symlink[h] = "exists"
    /\ req[h].OutputID = "o2" /\ link[Hex("a1")] = Hex("o1")
    /\ resp[h].Err = NoErr

\* The put handlers for which Bucket.LinkActionToOutput has returned.
LinkReturned ==
  {h \in Handlers : IsPut(h) /\ pathname[h] # NoPath /\ pc[h] \in {"ret", "encode", "flush", "done"}}

\* C18 (the remote action object is uploaded exactly when the link is new):
\* a put has called bucket.Upload for the action object if and only if its
\* os.Symlink created the symlink of the action, and the object it uploaded
\* carries its OutputID.
ActionUploadIffNewLink ==
  \A h \in LinkReturned :
    /\ h \in hist.actup <=> hist.symlink[h] = "new"
    /\ (h \in hist.actup /\ err[h] = NoErr) => raction[Hex(req[h].ActionID)] = outputID[h]

\* The pathnames of output o in the jobs channel, and the workers that hold one.
Queued(o) == {i \in 1..Len(jobs) : Base(jobs[i]) = o}
Holding(o) == {k \in Workers : wpc[k] = "upload" /\ Base(wjob[k]) = o}

\* Every pathname sent for o is in the channel, with one worker, or was
\* attempted once; nothing else ever enters the channel.
JobsConserved ==
  \A o \in Outputs :
    hist.enq[o] = Cardinality(Queued(o)) + Cardinality(Holding(o)) + hist.attempt[o]

\* The response of a put whose blob was written and linked is the output
\* path without an error, whatever became of the upload of the blob.
PutUnaffected ==
  \A h \in Handlers :
    (IsPut(h) /\ Responded(h) /\ err[h] = NoErr) =>
      /\ resp[h].DiskPath = OutputPath(outputID[h])
      /\ resp[h].Err = NoErr

\* C19 (upload jobs are attempted once and never fail a put): every
\* pathname sent to the jobs channel is held by one place at a time and is
\* attempted at most once, a failed attempt puts nothing back, every
\* pathname sent is eventually attempted, a response once built does not
\* change, and the response of the put does not depend on the upload.
UploadedOnce ==
  /\ [](JobsConserved /\ PutUnaffected)
  /\ [][\A h \in Handlers : Responded(h) => resp'[h] = resp[h]]_vars
  /\ \A o \in Outputs : (hist.enq[o] > hist.attempt[o]) ~> (hist.attempt[o] = hist.enq[o])

\* C19 witness: the upload of an output failed, its one attempt is over, the
\* channel is empty, and the put that queued it has answered without error.
UploadedOnceWitness ==
  \E h \in Handlers : \E o \in hist.upfail :
    /\ IsPut(h) /\ pc[h] = "done" /\ outputID[h] = o /\ resp[h].Err = NoErr
    /\ hist.enq[o] = 1 /\ hist.attempt[o] = 1 /\ routput[o] = None
    /\ jobs = <<>> /\ Holding(o) = {}

\* The upload of output o is queued, running, or about to be queued by the
\* put that has just renamed the blob into place.
InProgress(o) ==
  \/ Queued(o) # {}
  \/ Holding(o) # {}
  \/ \E h \in Handlers : IsPut(h) /\ pc[h] = "send" /\ outputID[h] = o

\* C20 as claimed (replication invariant): every output blob on disk is in
\* the bucket or has an upload queued or in progress.
ReplicationInvariant ==
  \A o \in Outputs :
    output[o] # NoFile => (routput[o] # None \/ InProgress(o))

\* C20 amended: every output blob on disk is in the bucket, or has an upload
\* queued or in progress, or its one upload failed and was dropped.
ReplicatedUnlessFailed ==
  \A o \in Outputs :
    output[o] # NoFile => (routput[o] # None \/ InProgress(o) \/ o \in hist.upfail)

\* C20 witness: the upload of a blob failed, and a later put of the same
\* output found the blob on disk, queued nothing and answered; the blob is
\* not in the bucket and no upload is pending.
ReplicatedUnlessFailedWitness ==
  \E g, h \in Handlers : \E o \in hist.upfail :
    /\ g < h /\ IsPut(g) /\ IsPut(h) /\ pc[g] = "done" /\ pc[h] = "done"
    /\ outputID[g] = o /\ outputID[h] = o
    /\ output[o] # NoFile /\ routput[o] = None /\ ~InProgress(o)
    /\ hist.enq[o] = 1

\* Handler h completes its call of b.bucket.Attributes in this step.
Fetched(h) == pc[h] = "attr" /\ hist'.remote[h] = hist.remote[h] + 1

\* C21 (negative markers record only confirmed remote misses): a ".empty"
\* marker is written only by a step in which b.bucket.Attributes answers
\* NotFound for that action, so every marker belongs to an action whose
\* fetch answered NotFound; a fetch that fails with another error, or that
\* returns metadata (with or without an output_id), leaves every marker as
\* it was.
MarkersOnlyAfterNotFound ==
  [][/\ \A a \in Actions :
          empty'[a] => /\ a \in hist'.notfound
                       /\ empty[a] \/ (raction[a] = None /\
                            \E h \in Handlers : Fetched(h) /\ Hex(req[h].ActionID) = a)
     /\ \A h \in Handlers :
          (Fetched(h) /\ (h \in hist'.attrerr \/ raction[Hex(req[h].ActionID)] # None))
          => empty' = empty]_vars

\* C21 witness: one get's fetch failed with a remote error, another get's
\* fetch returned metadata without an output_id and has answered, and the
\* action has no marker.
MarkersOnlyAfterNotFoundWitness ==
  \E g, h \in Handlers :
    /\ g \in hist.attrerr /\ hist.remote[h] = 1 /\ h \notin hist.attrerr
    /\ pc[h] = "done" /\ raction[Hex(req[h].ActionID)] = ""
    /\ req[g].ActionID = req[h].ActionID
    /\ ~empty[Hex(req[h].ActionID)] /\ hist.notfound = {}
====
